---- MODULE Spec2Model ----
(***************************************************************************)
(* Model of the cPanel MCP adapter: the API client (src/src/cpanel.py),    *)
(* the tool registry (src/src/routes.py) and the configuration it is built *)
(* from (src/src/config.py).                                               *)
(*                                                                         *)
(* Python strings that the code takes apart (split, strip, upper) are      *)
(* sequences of one-character strings; strings that are only passed on are *)
(* TLA+ strings.  A message is the sequence of the fragments an f-string   *)
(* joins, so that its prefix is its first element.                         *)
(***************************************************************************)
EXTENDS Integers, Sequences, FiniteSets, TLC

VARIABLES api, tools, inv

vars == <<api, tools, inv>>

\* ------------------------------------------------------------------ bounds

\* Longest mailbox address the callers pass.
MaxEmailLen == 3

\* Longest generated record type the callers pass.
MaxTypeLen == 2

\* ------------------------------------------------------------- constants

WhmPort == 2087

ApiVersion == 1

DefaultPort == 2083

DefaultTtl == 3600

\* ---------------------------------------------------------------- strings

\* All sequences over chars of length at most n.
RECURSIVE StringsUpTo(_, _)
StringsUpTo(chars, n) ==
    IF n = 0 THEN {<<>>}
    ELSE LET shorter == StringsUpTo(chars, n - 1)
         IN  shorter \cup {Append(s, c) : s \in {t \in shorter : Len(t) = n - 1}, c \in chars}

LowerCase == <<"a", "c", "h", "i", "m", "n", "s", "t", "x", "y", "z">>

UpperCase == <<"A", "C", "H", "I", "M", "N", "S", "T", "X", "Y", "Z">>

\* str.upper() on one character.
UpperChar(c) ==
    IF \E k \in 1..Len(LowerCase) : LowerCase[k] = c
    THEN UpperCase[CHOOSE k \in 1..Len(LowerCase) : LowerCase[k] = c]
    ELSE c

\* str.upper()
upper(s) == [k \in 1..Len(s) |-> UpperChar(s[k])]

\* str.strip(): leading and trailing whitespace removed.
RECURSIVE lstrip(_)
lstrip(s) == IF s # <<>> /\ Head(s) = " " THEN lstrip(Tail(s)) ELSE s

RECURSIVE rstrip(_)
rstrip(s) == IF s # <<>> /\ s[Len(s)] = " " THEN rstrip(SubSeq(s, 1, Len(s) - 1)) ELSE s

strip(s) == rstrip(lstrip(s))

\* str.split("@"): the pieces between the separators.
RECURSIVE split_at(_, _)
split_at(s, piece) ==
    IF s = <<>> THEN <<piece>>
    ELSE IF Head(s) = "@" THEN <<piece>> \o split_at(Tail(s), <<>>)
    ELSE split_at(Tail(s), Append(piece, Head(s)))

split(s) == split_at(s, <<>>)

\* "@" in email
Contains(s, c) == \E k \in 1..Len(s) : s[k] = c

\* ------------------------------------------------------------- exceptions

\* The exception classes the code raises or catches, with their base classes.
Bases ==
    [ CpanelAPIError  |-> {"CpanelAPIError", "Exception"},
      ValueError      |-> {"ValueError", "Exception"},
      JSONDecodeError |-> {"JSONDecodeError", "ValueError", "Exception"},
      IndexError      |-> {"IndexError", "LookupError", "Exception"},
      ConnectError    |-> {"ConnectError", "TransportError", "RequestError", "HTTPError", "Exception"},
      ReadTimeout     |-> {"ReadTimeout", "TimeoutException", "TransportError", "RequestError", "HTTPError", "Exception"},
      HTTPStatusError |-> {"HTTPStatusError", "HTTPError", "Exception"} ]

IsInstance(type, cls) == cls \in Bases[type]

NoValue == [type |-> "none", v |-> <<>>]

NoExc == [type |-> "none", msg |-> <<>>]

\* The outcome of a piece of code: it returned value, or raised exc.
Return(value) == [raised |-> FALSE, exc |-> NoExc, value |-> value]

Raise(type, msg) == [raised |-> TRUE, exc |-> [type |-> type, msg |-> msg], value |-> NoValue]

\* ------------------------------------------------------------------- JSON

\* A decoded JSON value: a mapping (a function on its keys) or a list.
Dict(f) == [type |-> "dict", v |-> f]

List(s) == [type |-> "list", v |-> s]

\* result.get(key) == value
GetEquals(d, key, value) == key \in DOMAIN d /\ d[key] = value

\* result.get(key, default)
Get(d, key, default) == IF key \in DOMAIN d THEN d[key] ELSE default

\* -------------------------------------------------------------- the client

Hostname == "host.example.com"

\* The Connection Profiles the client is constructed from.
CpanelConfig ==
    { [hostname |-> Hostname, username |-> "acct", api_token |-> "tok", port |-> p, ssl |-> s] :
        p \in {DefaultPort, 8443}, s \in BOOLEAN }

\* CpanelAPI.__init__ deriving the administrative base URL from the configured port.
CpanelAPI_configured_port(config) ==
    LET protocol == IF config.ssl THEN "https" ELSE "http"
    IN  [ config       |-> config,
          base_url     |-> <<protocol, "://", config.hostname, ":", config.port>>,
          whm_base_url |-> <<protocol, "://", config.hostname, ":", config.port>>,
          headers      |-> [ Authorization |-> <<"cpanel ", config.username, ":", config.api_token>>,
                             ContentType   |-> "application/json" ],
          whm_headers  |-> [ Authorization |-> <<"whm root:", config.api_token>>,
                             ContentType   |-> "application/json" ] ]

\* CpanelAPI.__init__
CpanelAPI(config) ==
    LET protocol == IF config.ssl THEN "https" ELSE "http"
    IN  [ config       |-> config,
          base_url     |-> <<protocol, "://", config.hostname, ":", config.port>>,
          whm_base_url |-> <<protocol, "://", config.hostname, ":", WhmPort>>,
          headers      |-> [ Authorization |-> <<"cpanel ", config.username, ":", config.api_token>>,
                             ContentType   |-> "application/json" ],
          whm_headers  |-> [ Authorization |-> <<"whm root:", config.api_token>>,
                             ContentType   |-> "application/json" ] ]

NoRequest == [surface |-> "none"]

\* A method's way out before the network: it raised, or it reached httpx.get
\* with this request.
Raised(type, msg) == [raised |-> TRUE, exc |-> [type |-> type, msg |-> msg], request |-> NoRequest]

Issue(request) == [raised |-> FALSE, exc |-> NoExc, request |-> request]

\* make_call up to httpx.get: the request it sends.
make_call(self, module, function, params) ==
    Issue([ surface |-> "account",
            url     |-> self.base_url \o <<"/execute/", module, "/", function>>,
            headers |-> self.headers,
            params  |-> params,
            timeout |-> 30,
            verify  |-> TRUE ])

\* make_whm_call keeping an api.version the caller supplied.
make_whm_call_keeps_version(self, function, params) ==
    Issue([ surface |-> "whm",
            url     |-> self.whm_base_url \o <<"/json-api/", function>>,
            headers |-> self.whm_headers,
            params  |-> params @@ ("api.version" :> ApiVersion),
            timeout |-> 30,
            verify  |-> FALSE ])

\* make_whm_call up to httpx.get: the request it sends.
make_whm_call(self, function, params) ==
    Issue([ surface |-> "whm",
            url     |-> self.whm_base_url \o <<"/json-api/", function>>,
            headers |-> self.whm_headers,
            params  |-> ("api.version" :> ApiVersion) @@ params,
            timeout |-> 30,
            verify  |-> FALSE ])

\* ------------------------------------------------------- the HTTP exchange

\* What httpx.get can come back with: a transport failure, or a response with
\* a status code and a body that is or is not JSON.
TransportFailure(cause) ==
    [kind |-> "transport", cause |-> cause, code |-> 0, json |-> FALSE, body |-> NoValue]

Response(code, json, body) ==
    [kind |-> "response", cause |-> "none", code |-> code, json |-> json, body |-> body]

NoHttp == [kind |-> "none", cause |-> "none", code |-> 0, json |-> FALSE, body |-> NoValue]

\* httpx.get(...): a transport failure raises a subclass of httpx.RequestError.
httpx_get(http) ==
    IF http.kind = "transport"
    THEN Raise(http.cause, <<http.cause>>)
    ELSE Return(NoValue)

\* response.raise_for_status(): httpx.HTTPStatusError unless the status is 2xx.
raise_for_status(http) ==
    IF http.code >= 200 /\ http.code <= 299
    THEN Return(NoValue)
    ELSE Raise("HTTPStatusError", <<"HTTP status ", http.code>>)

\* response.json(): json.JSONDecodeError (a ValueError) on a body that is not JSON.
response_json(http) ==
    IF http.json
    THEN Return(http.body)
    ELSE Raise("JSONDecodeError", <<"Expecting value">>)

\* make_call, lines 72-77: the account API's own error report.
account_check(result) ==
    IF result.type = "dict" /\ GetEquals(result.v, "status", 0)
    THEN LET errors == Get(result.v, "errors", <<"Unknown API error">>)
         IN  IF errors = <<>>
             THEN Raise("IndexError", <<"list index out of range">>)
             ELSE Raise("CpanelAPIError", <<"cPanel API error: ", errors[1]>>)
    ELSE Return(result)

\* whm_check with the two error indicators joined by "and".
whm_check_both(result) ==
    IF result.type = "dict"
       /\ (GetEquals(result.v, "result", 0) /\ GetEquals(result.v, "status", 0))
    THEN Raise("CpanelAPIError",
               <<"WHM API error: ",
                 Get(result.v, "reason", Get(result.v, "statusmsg", "Unknown WHM API error"))>>)
    ELSE Return(result)

\* make_whm_call, lines 121-128: the WHM API's own error report.
whm_check(result) ==
    IF result.type = "dict"
       /\ (GetEquals(result.v, "result", 0) \/ GetEquals(result.v, "status", 0))
    THEN Raise("CpanelAPIError",
               <<"WHM API error: ",
                 Get(result.v, "reason", Get(result.v, "statusmsg", "Unknown WHM API error"))>>)
    ELSE Return(result)

\* The body of make_call's try block, from httpx.get on.
make_call_try(http) ==
    IF httpx_get(http).raised THEN httpx_get(http)
    ELSE IF raise_for_status(http).raised THEN raise_for_status(http)
    ELSE IF response_json(http).raised THEN response_json(http)
    ELSE account_check(response_json(http).value)

\* make_call's except clauses.
make_call_except(out) ==
    IF out.raised /\ IsInstance(out.exc.type, "RequestError")
    THEN Raise("CpanelAPIError", <<"Request failed: ">> \o out.exc.msg)
    ELSE IF out.raised /\ IsInstance(out.exc.type, "ValueError")
    THEN Raise("CpanelAPIError", <<"Invalid JSON response from cPanel API: ">> \o out.exc.msg)
    ELSE out

\* The body of make_whm_call's try block, from httpx.get on.
make_whm_call_try(http) ==
    IF httpx_get(http).raised THEN httpx_get(http)
    ELSE IF raise_for_status(http).raised THEN raise_for_status(http)
    ELSE IF response_json(http).raised THEN response_json(http)
    ELSE whm_check(response_json(http).value)

\* make_whm_call's except clauses without the one for ValueError.
make_whm_call_except_request_only(out) ==
    IF out.raised /\ IsInstance(out.exc.type, "RequestError")
    THEN Raise("CpanelAPIError", <<"WHM API request failed: ">> \o out.exc.msg)
    ELSE out

\* make_whm_call's except clauses.
make_whm_call_except(out) ==
    IF out.raised /\ IsInstance(out.exc.type, "RequestError")
    THEN Raise("CpanelAPIError", <<"WHM API request failed: ">> \o out.exc.msg)
    ELSE IF out.raised /\ IsInstance(out.exc.type, "ValueError")
    THEN Raise("CpanelAPIError", <<"Invalid JSON response from WHM API: ">> \o out.exc.msg)
    ELSE out

\* What the call layer gives its caller once httpx.get has come back.
call_outcome(surface, http) ==
    IF surface = "account"
    THEN make_call_except(make_call_try(http))
    ELSE make_whm_call_except(make_whm_call_try(http))

\* ------------------------------------------------------ account operations

\* split_email splitting at the first "@" only, as email.split("@", 1) would.
split_email_first_at(email) ==
    IF ~Contains(email, "@")
    THEN Raise("ValueError", <<"Invalid email format: ", email>>)
    ELSE LET k     == CHOOSE n \in 1..Len(email) :
                         email[n] = "@" /\ \A m \in 1..(n - 1) : email[m] # "@"
             parts == <<SubSeq(email, 1, k - 1), SubSeq(email, k + 1, Len(email))>>
         IN  IF parts[1] = <<>> \/ parts[2] = <<>>
             THEN Raise("ValueError", <<"Invalid email format: ", email>>)
             ELSE Return(parts)

\* split_email without the check that both parts are non-empty.
split_email_unchecked_parts(email) ==
    IF ~Contains(email, "@")
    THEN Raise("ValueError", <<"Invalid email format: ", email>>)
    ELSE LET parts == split(email)
         IN  IF Len(parts) # 2
             THEN Raise("ValueError", <<"Invalid email format: ", email>>)
             ELSE Return(parts)

\* CpanelAPI.split_email: (username, domain), or ValueError.
split_email(email) ==
    IF ~Contains(email, "@")
    THEN Raise("ValueError", <<"Invalid email format: ", email>>)
    ELSE LET parts == split(email)
         IN  IF Len(parts) # 2
             THEN Raise("ValueError", <<"Invalid email format: ", email>>)
             ELSE IF parts[1] = <<>> \/ parts[2] = <<>>
             THEN Raise("ValueError", <<"Invalid email format: ", email>>)
             ELSE Return(parts)

\* A raise inside a method, before any request.
Propagate(out) == Raised(out.exc.type, out.exc.msg)

add_email_account(self, email, password, quota) ==
    LET s == split_email(email)
    IN  IF s.raised THEN Propagate(s)
        ELSE make_call(self, "Email", "add_pop",
                       [domain |-> s.value[2], email |-> s.value[1],
                        password |-> password, quota |-> quota])

delete_email_account(self, email) ==
    LET s == split_email(email)
    IN  IF s.raised THEN Propagate(s)
        ELSE make_call(self, "Email", "del_pop",
                       [domain |-> s.value[2], email |-> s.value[1]])

list_email_accounts(self, domain) ==
    make_call(self, "Email", "list_pops", [domain |-> domain])

get_email_settings(self) ==
    make_call(self, "Email", "get_client_settings", <<>>)

update_quota(self, email, quota) ==
    LET s == split_email(email)
    IN  IF s.raised THEN Propagate(s)
        ELSE make_call(self, "Email", "edit_pop_quota",
                       [username |-> s.value[1], domain |-> s.value[2], quota |-> quota])

change_password(self, email, new_password) ==
    LET s == split_email(email)
    IN  IF s.raised THEN Propagate(s)
        ELSE make_call(self, "Email", "passwd_pop",
                       [username |-> s.value[1], domain |-> s.value[2],
                        password |-> new_password])

\* create_email_forwarder forwarding to the source address instead of the destination.
create_email_forwarder_to_source(self, email, destination) ==
    LET s == split_email(email)
    IN  IF s.raised THEN Propagate(s)
        ELSE make_call(self, "Email", "add_forwarder",
                       [username |-> s.value[1], domain |-> s.value[2],
                        fwdopt |-> "fwd", fwdemail |-> email])

create_email_forwarder(self, email, destination) ==
    LET s == split_email(email)
    IN  IF s.raised THEN Propagate(s)
        ELSE make_call(self, "Email", "add_forwarder",
                       [username |-> s.value[1], domain |-> s.value[2],
                        fwdopt |-> "fwd", fwdemail |-> destination])

delete_email_forwarder(self, email, destination) ==
    make_call(self, "Email", "delete_forwarder",
              [address |-> email, forwarder |-> destination])

list_email_forwarders(self, domain) ==
    make_call(self, "Email", "list_forwarders", [domain |-> domain])

get_forwarder_settings(self) ==
    make_call(self, "Email", "get_forwarder_settings", <<>>)

\* ---------------------------------------------------------- DNS operations

VALID_DNS_RECORD_TYPES ==
    { <<"A">>, <<"A", "A", "A", "A">>, <<"C", "N", "A", "M", "E">>, <<"M", "X">>,
      <<"T", "X", "T">>, <<"N", "S">>, <<"P", "T", "R">>, <<"S", "R", "V">>,
      <<"C", "A", "A">>, <<"T", "L", "S", "A">> }

VALID_DNS_CLASSES == { <<"I", "N">>, <<"C", "H">>, <<"H", "S">> }

\* CpanelAPI._validate_dns_record_type
validate_dns_record_type(record_type) ==
    IF upper(record_type) \notin VALID_DNS_RECORD_TYPES
    THEN Raise("ValueError", <<"Invalid DNS record type '", record_type, "'. Valid types: ...">>)
    ELSE Return(NoValue)

get_dns_records(self, domain) ==
    IF domain = <<>> \/ strip(domain) = <<>>
    THEN Raised("ValueError", <<"Domain cannot be empty">>)
    ELSE make_whm_call(self, "dumpzone", [domain |-> strip(domain)])

add_dns_record(self, domain, name, record_type, address, ttl, record_class) ==
    IF \E x \in {domain, name, record_type, address} : x = <<>>
    THEN Raised("ValueError", <<"Domain, name, record_type, and address are required">>)
    ELSE LET d == strip(domain)
             n == strip(name)
             t == strip(upper(record_type))
             a == strip(address)
             c == strip(upper(record_class))
         IN  IF validate_dns_record_type(t).raised
             THEN Propagate(validate_dns_record_type(t))
             ELSE IF ttl < 1
             THEN Raised("ValueError", <<"TTL must be greater than 0">>)
             ELSE IF c \notin VALID_DNS_CLASSES
             THEN Raised("ValueError", <<"Invalid DNS class. Valid classes: IN, CH, HS">>)
             ELSE make_whm_call(self, "addzonerecord",
                                [domain |-> d, name |-> n, class |-> c, ttl |-> ttl,
                                 type |-> t, address |-> a])

\* edit_dns_record with the ttl check off by one (ttl < 0).
edit_dns_record_ttl(self, domain, line, name, record_type, address, ttl, record_class) ==
    IF \E x \in {domain, name, record_type, address} : x = <<>>
    THEN Raised("ValueError", <<"Domain, name, record_type, and address are required">>)
    ELSE IF line < 1
    THEN Raised("ValueError", <<"Line number must be greater than 0">>)
    ELSE LET d == strip(domain)
             n == strip(name)
             t == strip(upper(record_type))
             a == strip(address)
             c == strip(upper(record_class))
         IN  IF validate_dns_record_type(t).raised
             THEN Propagate(validate_dns_record_type(t))
             ELSE IF ttl < 0
             THEN Raised("ValueError", <<"TTL must be greater than 0">>)
             ELSE IF c \notin VALID_DNS_CLASSES
             THEN Raised("ValueError", <<"Invalid DNS class. Valid classes: IN, CH, HS">>)
             ELSE make_whm_call(self, "editzonerecord",
                                [domain |-> d, line |-> line, name |-> n, class |-> c,
                                 ttl |-> ttl, type |-> t, address |-> a])

edit_dns_record(self, domain, line, name, record_type, address, ttl, record_class) ==
    IF \E x \in {domain, name, record_type, address} : x = <<>>
    THEN Raised("ValueError", <<"Domain, name, record_type, and address are required">>)
    ELSE IF line < 1
    THEN Raised("ValueError", <<"Line number must be greater than 0">>)
    ELSE LET d == strip(domain)
             n == strip(name)
             t == strip(upper(record_type))
             a == strip(address)
             c == strip(upper(record_class))
         IN  IF validate_dns_record_type(t).raised
             THEN Propagate(validate_dns_record_type(t))
             ELSE IF ttl < 1
             THEN Raised("ValueError", <<"TTL must be greater than 0">>)
             ELSE IF c \notin VALID_DNS_CLASSES
             THEN Raised("ValueError", <<"Invalid DNS class. Valid classes: IN, CH, HS">>)
             ELSE make_whm_call(self, "editzonerecord",
                                [domain |-> d, line |-> line, name |-> n, class |-> c,
                                 ttl |-> ttl, type |-> t, address |-> a])

\* delete_dns_record without the line check.
delete_dns_record_any_line(self, domain, line) ==
    IF domain = <<>> \/ strip(domain) = <<>>
    THEN Raised("ValueError", <<"Domain cannot be empty">>)
    ELSE make_whm_call(self, "removezonerecord", [domain |-> strip(domain), line |-> line])

delete_dns_record(self, domain, line) ==
    IF domain = <<>> \/ strip(domain) = <<>>
    THEN Raised("ValueError", <<"Domain cannot be empty">>)
    ELSE IF line < 1
    THEN Raised("ValueError", <<"Line number must be greater than 0">>)
    ELSE make_whm_call(self, "removezonerecord", [domain |-> strip(domain), line |-> line])

\* ------------------------------------------------------- the tool registry

\* The tools _register_email_account_tools decorates.
email_account_tools ==
    {"add_email_account", "delete_email_account", "list_email_accounts",
     "get_email_settings", "update_quota", "change_password"}

\* The tools _register_email_forwarder_tools decorates.
email_forwarder_tools ==
    {"create_email_forwarder", "delete_email_forwarder", "list_email_forwarders"}

\* The tools _register_dns_management_tools decorates.
dns_management_tools ==
    {"get_dns_records", "add_dns_record", "edit_dns_record", "delete_dns_record"}

\* CpanelRoutes._register_tools
register_tools == email_account_tools \cup email_forwarder_tools \cup dns_management_tools

\* The client's operations: the public methods of CpanelAPI above the call layer.
ClientOperations ==
    {"add_email_account", "delete_email_account", "list_email_accounts",
     "get_email_settings", "update_quota", "change_password",
     "create_email_forwarder", "delete_email_forwarder", "list_email_forwarders",
     "get_forwarder_settings",
     "get_dns_records", "add_dns_record", "edit_dns_record", "delete_dns_record"}

\* The client method a tool's body calls, up to the request it issues.
tool_call(self, name, a) ==
    CASE name = "add_email_account"      -> add_email_account(self, a.email, a.password, a.quota)
      [] name = "delete_email_account"   -> delete_email_account(self, a.email)
      [] name = "list_email_accounts"    -> list_email_accounts(self, a.domain)
      [] name = "get_email_settings"     -> get_email_settings(self)
      [] name = "update_quota"           -> update_quota(self, a.email, a.quota)
      [] name = "change_password"        -> change_password(self, a.email, a.new_password)
      [] name = "create_email_forwarder" -> create_email_forwarder(self, a.email, a.destination)
      [] name = "delete_email_forwarder" -> delete_email_forwarder(self, a.email, a.destination)
      [] name = "list_email_forwarders"  -> list_email_forwarders(self, a.domain)
      [] name = "get_dns_records"        -> get_dns_records(self, a.domain)
      [] name = "add_dns_record"         ->
            add_dns_record(self, a.domain, a.name, a.record_type, a.address, a.ttl, a.record_class)
      [] name = "edit_dns_record"        ->
            edit_dns_record(self, a.domain, a.line, a.name, a.record_type, a.address, a.ttl,
                            a.record_class)
      [] name = "delete_dns_record"      -> delete_dns_record(self, a.domain, a.line)

\* tool_except without the final "except Exception" clause.
tool_except_api_only(out) ==
    IF ~out.raised THEN out
    ELSE IF IsInstance(out.exc.type, "CpanelAPIError")
    THEN Return(Dict([error |-> out.exc.msg]))
    ELSE out

\* The try/except every tool function wraps its client call in: the value is
\* returned, a CpanelAPIError or any other Exception becomes an error payload.
tool_except(out) ==
    IF ~out.raised THEN out
    ELSE IF IsInstance(out.exc.type, "CpanelAPIError")
    THEN Return(Dict([error |-> out.exc.msg]))
    ELSE IF IsInstance(out.exc.type, "Exception")
    THEN Return(Dict([error |-> <<"Unexpected error: ">> \o out.exc.msg]))
    ELSE out

\* ------------------------------------------------------ the callers' inputs

Emails == StringsUpTo({"u", "d", "@"}, MaxEmailLen) \cup { <<"u", "@", "d", "@", "u">> }

Passwords == {"p@ss", "secret"}

Quotas == {0, 100}

Destinations == { <<"x", "@", "y">>, <<"x">> }

Domains == { <<>>, <<" ">>, <<"d">>, <<" ", "d", " ">> }

Names == { <<>>, <<" ">>, <<"n">> }

Addresses == { <<>>, <<" ">>, <<"1">> }

RecordTypes ==
    StringsUpTo({"a", "A", " "}, MaxTypeLen)
        \cup { <<"m", "x">>, <<"A", "A", "A", "A">>, <<"X", "Y", "Z">> }

RecordClasses == { <<"I", "N">>, <<"i", "n">>, <<" ", "c", "h">>, <<"X", "X">> }

Ttls == {0, 1, DefaultTtl}

Lines == {0, 1}

\* The argument records a caller can pass to each tool.
ToolArgs(name) ==
    CASE name = "add_email_account"      -> [email : Emails, password : Passwords, quota : Quotas]
      [] name = "delete_email_account"   -> [email : Emails]
      [] name = "list_email_accounts"    -> [domain : Domains]
      [] name = "get_email_settings"     -> {<<>>}
      [] name = "update_quota"           -> [email : Emails, quota : Quotas]
      [] name = "change_password"        -> [email : Emails, new_password : Passwords]
      [] name = "create_email_forwarder" -> [email : Emails, destination : Destinations]
      [] name = "delete_email_forwarder" -> [email : Emails, destination : Destinations]
      [] name = "list_email_forwarders"  -> [domain : Domains]
      [] name = "get_dns_records"        -> [domain : Domains]
      [] name = "add_dns_record"         ->
            [domain : Domains, name : Names, record_type : RecordTypes, address : Addresses,
             ttl : Ttls, record_class : RecordClasses]
      [] name = "edit_dns_record"        ->
            [domain : Domains, line : Lines, name : Names, record_type : RecordTypes,
             address : Addresses, ttl : Ttls, record_class : RecordClasses]
      [] name = "delete_dns_record"      -> [domain : Domains, line : Lines]

\* One optional field of a JSON mapping.
Field(key, values) == {<<>>} \cup {key :> v : v \in values}

\* The bodies the remote side answers with.
AccountBodies ==
    { Dict(a @@ b) :
        a \in Field("status", {0, 1}),
        b \in Field("errors", { <<>>, <<"quota exceeded", "second error">> }) }

WhmBodies ==
    { Dict(a @@ b @@ c @@ d) :
        a \in Field("result", {0, 1}),
        b \in Field("status", {0, 1}),
        c \in Field("reason", {"zone not found"}),
        d \in Field("statusmsg", {"failed"}) }

\* What can come back from httpx.get.
HttpOutcomes ==
    { TransportFailure(c) : c \in {"ConnectError", "ReadTimeout"} }
        \cup { Response(code, FALSE, NoValue) : code \in {200, 404, 500} }
        \cup { Response(200, TRUE, b) : b \in AccountBodies \cup WhmBodies \cup {List(<<>>)} }

\* ------------------------------------------------------------ state machine

Invocations == {1}

Idle ==
    [pc |-> "idle", tool |-> "none", args |-> <<>>, request |-> NoRequest, nreq |-> 0,
     http |-> NoHttp, outcome |-> Return(NoValue), result |-> Return(NoValue)]

Init ==
    /\ api \in {CpanelAPI(c) : c \in CpanelConfig}
    /\ tools = {}
    /\ inv = [i \in Invocations |-> Idle]

\* CpanelRoutes.__init__: every tool is registered.
RegisterTools ==
    /\ tools = {}
    /\ tools' = register_tools
    /\ UNCHANGED <<api, inv>>

\* A tool function whose call layer keeps its parameters in one mapping shared
\* by all calls: the keys of a request still in flight stay in the next one.
InvokeOf_shared_params(i, names) ==
    /\ inv[i].pc = "idle"
    /\ \E name \in tools \cap names : \E a \in ToolArgs(name) :
         LET plan   == tool_call(api, name, a)
             out    == Raise(plan.exc.type, plan.exc.msg)
             others == {j \in DOMAIN inv \ {i} : inv[j].request # NoRequest}
             shared == IF others = {} THEN <<>>
                       ELSE inv[CHOOSE j \in others : TRUE].request.params
         IN  inv' = [inv EXCEPT ![i] =
                       IF plan.raised
                       THEN [pc |-> "done", tool |-> name, args |-> a, request |-> NoRequest,
                             nreq |-> inv[i].nreq, http |-> NoHttp,
                             outcome |-> out, result |-> tool_except(out)]
                       ELSE [pc |-> "waiting", tool |-> name, args |-> a,
                             request |-> [plan.request EXCEPT !.params = @ @@ shared],
                             nreq |-> inv[i].nreq + 1,
                             http |-> NoHttp,
                             outcome |-> Return(NoValue), result |-> Return(NoValue)]]
    /\ UNCHANGED <<api, tools>>

\* A caller invokes one of the registered tools among names: the tool function
\* runs its client method up to httpx.get, or to the exception that ends it
\* before any request, which the tool function turns into its result.
InvokeOf(i, names) ==
    /\ inv[i].pc = "idle"
    /\ \E name \in tools \cap names : \E a \in ToolArgs(name) :
         LET plan == tool_call(api, name, a)
             out  == Raise(plan.exc.type, plan.exc.msg)
         IN  inv' = [inv EXCEPT ![i] =
                       IF plan.raised
                       THEN [pc |-> "done", tool |-> name, args |-> a, request |-> NoRequest,
                             nreq |-> inv[i].nreq, http |-> NoHttp,
                             outcome |-> out, result |-> tool_except(out)]
                       ELSE [pc |-> "waiting", tool |-> name, args |-> a,
                             request |-> plan.request, nreq |-> inv[i].nreq + 1,
                             http |-> NoHttp,
                             outcome |-> Return(NoValue), result |-> Return(NoValue)]]
    /\ UNCHANGED <<api, tools>>

Invoke(i) == InvokeOf(i, register_tools)

\* httpx.get comes back: the call layer classifies the outcome and the tool
\* function returns.
Respond(i) ==
    /\ inv[i].pc = "waiting"
    /\ \E http \in HttpOutcomes :
         LET out == call_outcome(inv[i].request.surface, http)
         IN  inv' = [inv EXCEPT ![i].pc = "done",
                                ![i].http = http,
                                ![i].outcome = out,
                                ![i].result = tool_except(out)]
    /\ UNCHANGED <<api, tools>>

\* The caller has its result; the slot serves the next invocation.
Finish(i) ==
    /\ inv[i].pc = "done"
    /\ inv' = [inv EXCEPT ![i] = Idle]
    /\ UNCHANGED <<api, tools>>

Next ==
    \/ RegisterTools
    \/ \E i \in Invocations : Invoke(i)
    \/ \E i \in Invocations : Respond(i)
    \/ \E i \in Invocations : Finish(i)

Spec == Init /\ [][Next]_vars

\* Two callers at once, each deleting a mailbox or listing a zone.
InvocationPair == {1, 2}

PairTools == {"delete_email_account", "get_dns_records"}

InitPair ==
    /\ api \in {CpanelAPI(c) : c \in CpanelConfig}
    /\ tools = {}
    /\ inv = [i \in InvocationPair |-> Idle]

NextPair ==
    \/ RegisterTools
    \/ \E i \in InvocationPair : InvokeOf(i, PairTools)
    \/ \E i \in InvocationPair : Respond(i)
    \/ \E i \in InvocationPair : Finish(i)

SpecPair == InitPair /\ [][NextPair]_vars

\* Two callers at once, each removing a zone record or listing mailboxes.
ConcurrentTools == {"delete_dns_record", "list_email_accounts"}

NextConcurrent ==
    \/ RegisterTools
    \/ \E i \in InvocationPair : InvokeOf(i, ConcurrentTools)
    \/ \E i \in InvocationPair : Respond(i)
    \/ \E i \in InvocationPair : Finish(i)

SpecConcurrent == InitPair /\ [][NextConcurrent]_vars

\* The call layer used directly, as the client's methods use it: a caller
\* passes a function name and its own parameters, or none.
NoParams == <<>>

CallerParams ==
    { NoParams,
      [domain |-> <<"d">>],
      "api.version" :> 2,
      ("api.version" :> 2) @@ [domain |-> <<"d">>, line |-> 3] }

WhmFunctions == {"dumpzone", "removezonerecord"}

\* api.make_whm_call(function, params) up to httpx.get.
CallWhm(i) ==
    /\ inv[i].pc = "idle"
    /\ \E function \in WhmFunctions : \E params \in CallerParams :
         inv' = [inv EXCEPT ![i] =
                   [pc |-> "waiting", tool |-> "make_whm_call",
                    args |-> [function |-> function, params |-> params],
                    request |-> make_whm_call(api, function, params).request,
                    nreq |-> inv[i].nreq + 1, http |-> NoHttp,
                    outcome |-> Return(NoValue), result |-> Return(NoValue)]]
    /\ UNCHANGED <<api, tools>>

\* api.make_call("Email", "list_pops", params) up to httpx.get.
CallAccount(i) ==
    /\ inv[i].pc = "idle"
    /\ \E params \in CallerParams :
         inv' = [inv EXCEPT ![i] =
                   [pc |-> "waiting", tool |-> "make_call",
                    args |-> [function |-> "list_pops", params |-> params],
                    request |-> make_call(api, "Email", "list_pops", params).request,
                    nreq |-> inv[i].nreq + 1, http |-> NoHttp,
                    outcome |-> Return(NoValue), result |-> Return(NoValue)]]
    /\ UNCHANGED <<api, tools>>

\* httpx.get comes back: the call layer returns the body or raises, and the
\* caller gets exactly that.
CallReturns(i) ==
    /\ inv[i].pc = "waiting"
    /\ \E http \in HttpOutcomes :
         LET out == call_outcome(inv[i].request.surface, http)
         IN  inv' = [inv EXCEPT ![i].pc = "done",
                                ![i].http = http,
                                ![i].outcome = out,
                                ![i].result = out]
    /\ UNCHANGED <<api, tools>>

NextCalls ==
    \/ \E i \in Invocations : CallWhm(i)
    \/ \E i \in Invocations : CallAccount(i)
    \/ \E i \in Invocations : CallReturns(i)
    \/ \E i \in Invocations : Finish(i)

SpecCalls == Init /\ [][NextCalls]_vars

\* ------------------------------------------------------------- properties

\* What the remote side did in an invocation, read off the exchange itself.
Done(r) == r.pc = "done"

Exchanged(r) == r.http.kind # "none"

TransportFailed(r) == r.http.kind = "transport"

Success2xx(r) == r.http.kind = "response" /\ r.http.code \in 200..299

StatusFailed(r) == r.http.kind = "response" /\ r.http.code \notin 200..299

NotJson(r) == Success2xx(r) /\ ~r.http.json

JsonMapping(r) == Success2xx(r) /\ r.http.json /\ r.http.body.type = "dict"

\* The call raised a CpanelAPIError whose message starts with one of prefixes.
FailsWith(r, prefixes) ==
    /\ r.outcome.raised
    /\ r.outcome.exc.type = "CpanelAPIError"
    /\ Head(r.outcome.exc.msg) \in prefixes

RequestFailed == {"Request failed: ", "WHM API request failed: "}

InvalidResponse ==
    {"Invalid JSON response from cPanel API: ", "Invalid JSON response from WHM API: "}

ApiError == {"cPanel API error: ", "WHM API error: "}

\* C1: on both call surfaces a response with a non-2xx status makes the call
\* fail with the RequestFailed classification (a CpanelAPIError), never with
\* any other error type.
C1_NonSuccessStatusIsRequestFailed ==
    \A i \in DOMAIN inv :
        Done(inv[i]) /\ StatusFailed(inv[i]) => FailsWith(inv[i], RequestFailed)

\* C2: on the account surface a 2xx JSON mapping with "status" == 0 makes
\* make_call fail with a CpanelAPIError whose message is the first element of
\* "errors" when that is present and non-empty, and the generic unknown-error
\* message when "errors" is absent or an empty list.
C2_AccountApiErrorMessage ==
    \A i \in DOMAIN inv :
        LET r == inv[i]
            b == r.http.body.v
        IN  ( /\ Done(r)
              /\ r.request.surface = "account"
              /\ JsonMapping(r)
              /\ "status" \in DOMAIN b
              /\ b["status"] = 0 )
            => /\ r.outcome.raised
               /\ r.outcome.exc.type = "CpanelAPIError"
               /\ r.outcome.exc.msg =
                    <<"cPanel API error: ",
                      IF "errors" \in DOMAIN b /\ b["errors"] # <<>>
                      THEN b["errors"][1]
                      ELSE "Unknown API error">>

\* The message the administrative surface reports for a failed mapping.
WhmReason(b) ==
    IF "reason" \in DOMAIN b THEN b["reason"]
    ELSE IF "statusmsg" \in DOMAIN b THEN b["statusmsg"]
    ELSE "Unknown WHM API error"

WhmFailed(b) ==
    \/ "result" \in DOMAIN b /\ b["result"] = 0
    \/ "status" \in DOMAIN b /\ b["status"] = 0

\* C3: on the administrative surface a 2xx JSON mapping is a remote API error
\* exactly when "result" == 0 or "status" == 0, with the message taken from
\* "reason", else "statusmsg", else a generic message; every other JSON
\* response is returned as success.
C3_WhmClassification ==
    \A i \in DOMAIN inv :
        LET r == inv[i]
        IN  (Done(r) /\ r.request.surface = "whm" /\ Success2xx(r) /\ r.http.json)
            => IF r.http.body.type = "dict" /\ WhmFailed(r.http.body.v)
               THEN /\ r.outcome.raised
                    /\ r.outcome.exc.type = "CpanelAPIError"
                    /\ r.outcome.exc.msg = <<"WHM API error: ", WhmReason(r.http.body.v)>>
               ELSE r.outcome = Return(r.http.body)

\* A failed mapping without "reason" was reported with its "statusmsg".
C3_Witness ==
    \E i \in DOMAIN inv :
        /\ Done(inv[i])
        /\ inv[i].request.surface = "whm"
        /\ JsonMapping(inv[i])
        /\ DOMAIN inv[i].http.body.v = {"status", "statusmsg"}
        /\ inv[i].http.body.v["status"] = 0
        /\ inv[i].outcome.exc.msg = <<"WHM API error: ", "failed">>

\* A mailbox address: exactly one "@" with text on both sides.
ValidAddress(s) ==
    /\ Cardinality({k \in 1..Len(s) : s[k] = "@"}) = 1
    /\ s[1] # "@"
    /\ s[Len(s)] # "@"

\* The operations that take a mailbox address as their email argument.
AddressTools ==
    {"add_email_account", "delete_email_account", "update_quota", "change_password",
     "create_email_forwarder", "delete_email_forwarder"}

\* C4 as claimed: for every operation that takes a mailbox address as its
\* email argument, delete forwarder included, a malformed address is rejected
\* before any network call, so no request is issued for the invocation.
C4_AllAddressOperationsValidate ==
    \A i \in DOMAIN inv :
        (inv[i].tool \in AddressTools /\ ~ValidAddress(inv[i].args.email))
            => inv[i].nreq = 0 /\ inv[i].request = NoRequest

\* C4 as amended: add mailbox, delete mailbox, update quota, change password
\* and create forwarder reject a malformed address with the invalid-format
\* error before any network call, so no request is issued; delete forwarder
\* does not examine its address and issues its request with it.
C4_SplittingOperationsValidate ==
    \A i \in DOMAIN inv :
        LET r == inv[i]
        IN  /\ (r.tool \in AddressTools \ {"delete_email_forwarder"}
                  /\ ~ValidAddress(r.args.email))
               => /\ Done(r)
                  /\ r.nreq = 0
                  /\ r.request = NoRequest
                  /\ ~Exchanged(r)
                  /\ r.outcome = Raise("ValueError", <<"Invalid email format: ", r.args.email>>)
            /\ r.tool = "delete_email_forwarder"
               => /\ r.nreq = 1
                  /\ r.request.params["address"] = r.args.email

\* create forwarder turned down an address with two "@".
C4_Witness ==
    \E i \in DOMAIN inv :
        /\ Done(inv[i])
        /\ inv[i].tool = "create_email_forwarder"
        /\ inv[i].args.email = <<"u", "@", "@">>
        /\ inv[i].nreq = 0
        /\ inv[i].outcome.raised

\* The record types and classes of the specification.
AllowedTypes ==
    { <<"A">>, <<"A", "A", "A", "A">>, <<"C", "N", "A", "M", "E">>, <<"M", "X">>,
      <<"T", "X", "T">>, <<"N", "S">>, <<"P", "T", "R">>, <<"S", "R", "V">>,
      <<"C", "A", "A">>, <<"T", "L", "S", "A">> }

AllowedClasses == { <<"I", "N">>, <<"C", "H">>, <<"H", "S">> }

RecordTools == {"add_dns_record", "edit_dns_record"}

LineTools == {"edit_dns_record", "delete_dns_record"}

\* What every zone-record request on the wire carries.
WireWellFormed(r) ==
    /\ r.tool \in RecordTools
       => /\ r.request.params["type"] \in AllowedTypes
          /\ r.request.params["ttl"] >= 1
          /\ r.request.params["class"] \in AllowedClasses
    /\ r.tool \in LineTools => r.request.params["line"] >= 1

\* C5 as claimed: add, edit and delete record issue no request when the
\* record type, compared case-insensitively, is outside the allow-list, when
\* ttl < 1, when the class is not IN, CH or HS, or when line < 1; so every
\* request issued carries an allowed upper-case type, ttl >= 1, an allowed
\* class and line >= 1.
C5_RejectsOutsideAllowList ==
    \A i \in DOMAIN inv :
        LET r == inv[i]
        IN  /\ (r.tool \in RecordTools
                  /\ ( \/ upper(r.args.record_type) \notin AllowedTypes
                       \/ r.args.ttl < 1
                       \/ upper(r.args.record_class) \notin AllowedClasses ))
               => r.nreq = 0
            /\ (r.tool \in LineTools /\ r.args.line < 1) => r.nreq = 0
            /\ r.nreq > 0 => WireWellFormed(r)

\* C5 as amended: the record type and the class are compared after
\* surrounding whitespace is trimmed and case is folded; with that, no request
\* is issued for a type outside the allow-list, ttl < 1, a class other than
\* IN, CH, HS, or line < 1, and every request issued carries an allowed
\* upper-case type, ttl >= 1, an allowed class and line >= 1.
C5_RejectsOutsideAllowListTrimmed ==
    \A i \in DOMAIN inv :
        LET r == inv[i]
        IN  /\ (r.tool \in RecordTools
                  /\ ( \/ strip(upper(r.args.record_type)) \notin AllowedTypes
                       \/ r.args.ttl < 1
                       \/ strip(upper(r.args.record_class)) \notin AllowedClasses ))
               => r.nreq = 0 /\ r.request = NoRequest
            /\ (r.tool \in LineTools /\ r.args.line < 1)
               => r.nreq = 0 /\ r.request = NoRequest
            /\ (r.tool \in RecordTools \cup LineTools /\ r.nreq > 0) => WireWellFormed(r)

\* A padded lower-case type went out as "A", with a padded lower-case class.
C5_Witness ==
    \E i \in DOMAIN inv :
        /\ inv[i].tool = "edit_dns_record"
        /\ inv[i].args.record_type = <<" ", "a">>
        /\ inv[i].args.record_class = <<" ", "c", "h">>
        /\ inv[i].nreq = 1
        /\ inv[i].request.params["type"] = <<"A">>
        /\ inv[i].request.params["class"] = <<"C", "H">>

\* A tool's result is the structured payload {"error": message}.
IsErrorPayload(result) ==
    /\ ~result.raised
    /\ result.value.type = "dict"
    /\ DOMAIN result.value.v = {"error"}

\* The class of an error payload: the prefix its message starts with.
ErrorClass(result) == Head(result.value.v["error"])

\* The remote side's own report of failure in a 2xx JSON mapping.
RemoteError(r) ==
    /\ JsonMapping(r)
    /\ IF r.request.surface = "account"
       THEN "status" \in DOMAIN r.http.body.v /\ r.http.body.v["status"] = 0
       ELSE WhmFailed(r.http.body.v)

\* The exchange of the invocation failed.
FailedAfterRequest(r) ==
    Done(r) /\ (TransportFailed(r) \/ StatusFailed(r) \/ NotJson(r) \/ RemoteError(r))

\* C6: whatever the arguments and whatever the client call does (validation
\* failure, transport failure, non-2xx status, non-JSON body, remote API error,
\* any other exception), a tool invocation returns the decoded remote response
\* or a payload {"error": message}; nothing raised leaves the tool function.
C6_ToolsNeverRaise ==
    \A i \in DOMAIN inv :
        LET r == inv[i]
        IN  Done(r)
            => /\ ~r.result.raised
               /\ IF r.outcome.raised
                  THEN IsErrorPayload(r.result)
                  ELSE Success2xx(r) /\ r.http.json /\ r.result.value = r.http.body

\* An exception the client does not classify came back as an error payload.
C6_Witness ==
    \E i \in DOMAIN inv :
        /\ Done(inv[i])
        /\ inv[i].outcome.raised
        /\ inv[i].outcome.exc.type = "HTTPStatusError"
        /\ IsErrorPayload(inv[i].result)

\* C7: once the tool registry is initialised, every client operation of the
\* specification (the ten account operations, get forwarder settings among
\* them, and the four DNS operations) is a registered tool.
C7_EveryOperationRegistered ==
    tools # {} => ClientOperations \subseteq tools

\* C8: a caller can tell a validation failure from a remote or transport
\* failure: the class of the error payload of an invocation rejected locally,
\* with no request issued, is never the class of the error payload of an
\* invocation that failed after its request was issued.
C8_ValidationDistinctFromRemote ==
    \A i, j \in DOMAIN inv :
        ( /\ Done(inv[i])
          /\ inv[i].nreq = 0
          /\ IsErrorPayload(inv[i].result)
          /\ FailedAfterRequest(inv[j])
          /\ inv[j].nreq > 0
          /\ IsErrorPayload(inv[j].result) )
        => ErrorClass(inv[i].result) # ErrorClass(inv[j].result)

\* The inputs the operations turn down before building a call.
InvalidInput(r) ==
    \/ r.tool \in AddressTools \ {"delete_email_forwarder"} /\ ~ValidAddress(r.args.email)
    \/ r.tool \in {"get_dns_records", "delete_dns_record"} /\ strip(r.args.domain) = <<>>
    \/ r.tool \in LineTools /\ r.args.line < 1
    \/ r.tool \in RecordTools
       /\ ( \/ <<>> \in {r.args.domain, r.args.name, r.args.record_type, r.args.address}
            \/ strip(upper(r.args.record_type)) \notin AllowedTypes
            \/ r.args.ttl < 1
            \/ strip(upper(r.args.record_class)) \notin AllowedClasses )

\* C9: an invocation issues no request when validation fails and exactly one
\* otherwise; when that request fails (transport, status, parse or remote
\* error) the invocation ends with that failure as its result and no further
\* request.
C9_AtMostOneRequest ==
    \A i \in DOMAIN inv :
        LET r == inv[i]
        IN  r.pc # "idle"
            => /\ r.nreq = (IF InvalidInput(r) THEN 0 ELSE 1)
               /\ InvalidInput(r) => Done(r) /\ ~Exchanged(r) /\ IsErrorPayload(r.result)
               /\ Exchanged(r) => Done(r) /\ r.nreq = 1
               /\ FailedAfterRequest(r)
                  => /\ r.outcome.raised
                     /\ IsErrorPayload(r.result)
                     /\ r.result.value.v["error"] \in
                          { r.outcome.exc.msg, <<"Unexpected error: ">> \o r.outcome.exc.msg }

\* A timed-out request ended its invocation: one request, the failure returned.
C9_Witness ==
    \E i \in DOMAIN inv :
        /\ Done(inv[i])
        /\ inv[i].http = TransportFailure("ReadTimeout")
        /\ inv[i].nreq = 1
        /\ IsErrorPayload(inv[i].result)

\* C10: on either surface a transport failure fails with RequestFailed and a
\* 2xx body that is not JSON fails with InvalidResponse; neither is returned
\* as a success value or reported as a remote API error.
C10_TransportAndParseFailures ==
    \A i \in DOMAIN inv :
        LET r == inv[i]
            account == r.request.surface = "account"
        IN  /\ (Done(r) /\ TransportFailed(r))
               => /\ FailsWith(r, {IF account THEN "Request failed: "
                                              ELSE "WHM API request failed: "})
                  /\ IsErrorPayload(r.result)
                  /\ ErrorClass(r.result) \in RequestFailed
            /\ (Done(r) /\ NotJson(r))
               => /\ FailsWith(r, {IF account THEN "Invalid JSON response from cPanel API: "
                                              ELSE "Invalid JSON response from WHM API: "})
                  /\ IsErrorPayload(r.result)
                  /\ ErrorClass(r.result) \in InvalidResponse

\* A body that is not JSON on the administrative surface was classified.
C10_Witness ==
    \E i \in DOMAIN inv :
        /\ Done(inv[i])
        /\ inv[i].request.surface = "whm"
        /\ NotJson(inv[i])
        /\ FailsWith(inv[i], InvalidResponse)

\* The parts of a mailbox address around its "@".
AtPosition(s) == CHOOSE k \in 1..Len(s) : s[k] = "@"

LocalPart(s) == SubSeq(s, 1, AtPosition(s) - 1)

DomainPart(s) == SubSeq(s, AtPosition(s) + 1, Len(s))

\* The specification's table: the path and the parameters of each operation's call.
ExpectedPath(tool) ==
    CASE tool = "add_email_account"      -> <<"/execute/", "Email", "/", "add_pop">>
      [] tool = "delete_email_account"   -> <<"/execute/", "Email", "/", "del_pop">>
      [] tool = "list_email_accounts"    -> <<"/execute/", "Email", "/", "list_pops">>
      [] tool = "get_email_settings"     -> <<"/execute/", "Email", "/", "get_client_settings">>
      [] tool = "update_quota"           -> <<"/execute/", "Email", "/", "edit_pop_quota">>
      [] tool = "change_password"        -> <<"/execute/", "Email", "/", "passwd_pop">>
      [] tool = "create_email_forwarder" -> <<"/execute/", "Email", "/", "add_forwarder">>
      [] tool = "delete_email_forwarder" -> <<"/execute/", "Email", "/", "delete_forwarder">>
      [] tool = "list_email_forwarders"  -> <<"/execute/", "Email", "/", "list_forwarders">>
      [] tool = "get_dns_records"        -> <<"/json-api/", "dumpzone">>
      [] tool = "add_dns_record"         -> <<"/json-api/", "addzonerecord">>
      [] tool = "edit_dns_record"        -> <<"/json-api/", "editzonerecord">>
      [] tool = "delete_dns_record"      -> <<"/json-api/", "removezonerecord">>

ExpectedParams(tool, a) ==
    CASE tool = "add_email_account"      ->
            [domain |-> DomainPart(a.email), email |-> LocalPart(a.email),
             password |-> a.password, quota |-> a.quota]
      [] tool = "delete_email_account"   ->
            [domain |-> DomainPart(a.email), email |-> LocalPart(a.email)]
      [] tool = "list_email_accounts"    -> [domain |-> a.domain]
      [] tool = "get_email_settings"     -> <<>>
      [] tool = "update_quota"           ->
            [username |-> LocalPart(a.email), domain |-> DomainPart(a.email), quota |-> a.quota]
      [] tool = "change_password"        ->
            [username |-> LocalPart(a.email), domain |-> DomainPart(a.email),
             password |-> a.new_password]
      [] tool = "create_email_forwarder" ->
            [username |-> LocalPart(a.email), domain |-> DomainPart(a.email),
             fwdopt |-> "fwd", fwdemail |-> a.destination]
      [] tool = "delete_email_forwarder" -> [address |-> a.email, forwarder |-> a.destination]
      [] tool = "list_email_forwarders"  -> [domain |-> a.domain]
      [] tool = "get_dns_records"        -> [domain |-> strip(a.domain)]
      [] tool = "add_dns_record"         ->
            [domain |-> strip(a.domain), name |-> strip(a.name),
             class |-> strip(upper(a.record_class)), ttl |-> a.ttl,
             type |-> strip(upper(a.record_type)), address |-> strip(a.address)]
      [] tool = "edit_dns_record"        ->
            [domain |-> strip(a.domain), line |-> a.line, name |-> strip(a.name),
             class |-> strip(upper(a.record_class)), ttl |-> a.ttl,
             type |-> strip(upper(a.record_type)), address |-> strip(a.address)]
      [] tool = "delete_dns_record"      -> [domain |-> strip(a.domain), line |-> a.line]

\* The parameters the caller of the call layer supplied: those on the wire
\* without the version the administrative call layer adds.
SuppliedParams(request) ==
    [k \in DOMAIN request.params \ {"api.version"} |-> request.params[k]]

\* C11: each derived operation whose validation passes makes exactly one
\* call-layer call, with the module/function and the parameters of the
\* specification's table, and on success returns the call layer's result
\* object unmodified.
C11_OperationsBuildTheTableCall ==
    /\ get_forwarder_settings(api).request.url
         = api.base_url \o <<"/execute/", "Email", "/", "get_forwarder_settings">>
    /\ get_forwarder_settings(api).request.params = <<>>
    /\ \A i \in DOMAIN inv :
        LET r == inv[i]
            expected == ExpectedParams(r.tool, r.args)
        IN  /\ (r.pc # "idle" /\ ~InvalidInput(r))
               => /\ r.nreq = 1
                  /\ r.request.url
                       = (IF r.request.surface = "account" THEN api.base_url
                                                           ELSE api.whm_base_url)
                         \o ExpectedPath(r.tool)
                  /\ DOMAIN SuppliedParams(r.request) = DOMAIN expected
                  /\ \A k \in DOMAIN expected : r.request.params[k] = expected[k]
            /\ (Done(r) /\ Exchanged(r) /\ ~FailedAfterRequest(r))
               => /\ r.outcome = Return(r.http.body)
                  /\ r.result = Return(r.http.body)

\* create forwarder built its call from the split source address and returned
\* the remote mapping it got.
C11_Witness ==
    \E i \in DOMAIN inv :
        /\ Done(inv[i])
        /\ inv[i].tool = "create_email_forwarder"
        /\ inv[i].args.email = <<"u", "@", "d">>
        /\ inv[i].request.params["username"] = <<"u">>
        /\ inv[i].request.params["fwdemail"] = inv[i].args.destination
        /\ inv[i].http.body = Dict("status" :> 1)
        /\ inv[i].result = Return(Dict("status" :> 1))

\* The parameter that carries the local part in each operation that splits.
LocalKey(tool) ==
    IF tool \in {"add_email_account", "delete_email_account"} THEN "email" ELSE "username"

\* C12: split mailbox address succeeds exactly when the address has exactly
\* one "@" with text on both sides, and fails with the invalid-format error
\* otherwise; on success local-part + "@" + domain is the address and neither
\* part contains "@".
C12_SplitEmail ==
    \A i \in DOMAIN inv :
        LET r     == inv[i]
            email == r.args.email
        IN  r.tool \in AddressTools \ {"delete_email_forwarder"}
            => IF ValidAddress(email)
               THEN LET local  == r.request.params[LocalKey(r.tool)]
                        domain == r.request.params["domain"]
                    IN  /\ r.nreq = 1
                        /\ local \o <<"@">> \o domain = email
                        /\ local # <<>> /\ domain # <<>>
                        /\ ~Contains(local, "@") /\ ~Contains(domain, "@")
               ELSE /\ r.nreq = 0
                    /\ r.outcome = Raise("ValueError", <<"Invalid email format: ", email>>)

\* An address with two "@" and text around each was turned down.
C12_Witness ==
    \E i \in DOMAIN inv :
        /\ Done(inv[i])
        /\ inv[i].tool = "delete_email_account"
        /\ inv[i].args.email = <<"u", "@", "d", "@", "u">>
        /\ inv[i].outcome.raised
        /\ inv[i].nreq = 0

\* The scheme of the Connection Profile.
Scheme(config) == IF config.ssl THEN "https" ELSE "http"

\* C13: for every valid Connection Profile every account-surface request
\* targets scheme://host:<configured port>/execute/... and every
\* administrative-surface request targets scheme://host:2087/json-api/...,
\* whatever the configured port, with scheme https when encryption is enabled
\* and http otherwise on both surfaces.
C13_RequestTargets ==
    \A i \in DOMAIN inv :
        LET r == inv[i]
            c == api.config
        IN  /\ r.request.surface = "account"
               => /\ SubSeq(r.request.url, 1, 5)
                       = <<Scheme(c), "://", c.hostname, ":", c.port>>
                  /\ r.request.url[6] = "/execute/"
            /\ r.request.surface = "whm"
               => /\ SubSeq(r.request.url, 1, 5)
                       = <<Scheme(c), "://", c.hostname, ":", 2087>>
                  /\ r.request.url[6] = "/json-api/"

\* With port 8443 and no encryption configured, a zone request went to
\* http://host:2087/json-api/ and a mailbox request to http://host:8443/execute/.
C13_Witness ==
    /\ api.config.port = 8443
    /\ ~api.config.ssl
    /\ \E i \in DOMAIN inv :
        /\ inv[i].request.surface = "whm"
        /\ inv[i].request.url = <<"http", "://", Hostname, ":", 2087, "/json-api/", "dumpzone">>

\* C14: add record and edit record issue a request only when domain, name,
\* record type and address are non-empty: no addzonerecord or editzonerecord
\* request carries an empty domain, name, type or address on the wire, and no
\* dumpzone or removezonerecord request carries an empty domain.
C14_NoEmptyFieldOnTheWire ==
    \A i \in DOMAIN inv :
        LET r == inv[i]
        IN  r.nreq > 0
            => /\ r.tool \in RecordTools
                  => \A k \in {"domain", "name", "type", "address"} : r.request.params[k] # <<>>
               /\ r.tool \in {"get_dns_records", "delete_dns_record"}
                  => r.request.params["domain"] # <<>>

\* C15: every request on the administrative surface carries api.version = 1
\* whatever parameters the caller supplied (an api.version of the caller is
\* overridden), and every other parameter of the caller is sent unchanged.
C15_ApiVersionAlwaysOne ==
    \A i \in DOMAIN inv :
        LET r == inv[i]
        IN  (r.nreq > 0 /\ r.tool = "make_whm_call")
            => /\ r.request.params["api.version"] = 1
               /\ DOMAIN r.request.params = DOMAIN r.args.params \cup {"api.version"}
               /\ \A k \in DOMAIN r.args.params \ {"api.version"} :
                    r.request.params[k] = r.args.params[k]

\* A caller passed api.version 2 with a domain and a line: the request went
\* out with api.version 1 and with that domain and line.
C15_Witness ==
    \E i \in DOMAIN inv :
        /\ inv[i].tool = "make_whm_call"
        /\ inv[i].nreq > 0
        /\ "api.version" \in DOMAIN inv[i].args.params
        /\ inv[i].args.params["api.version"] = 2
        /\ inv[i].request.params["api.version"] = 1
        /\ "line" \in DOMAIN inv[i].args.params
        /\ inv[i].request.params["line"] = 3

\* The request an invocation's own tool and arguments determine, given the
\* client's fields.
OnAdminSurface(tool) == tool \in dns_management_tools

RequestFromOwnArguments(r) ==
    LET expected == ExpectedParams(r.tool, r.args)
        own      == IF OnAdminSurface(r.tool)
                    THEN DOMAIN expected \cup {"api.version"}
                    ELSE DOMAIN expected
    IN  /\ r.request.surface = (IF OnAdminSurface(r.tool) THEN "whm" ELSE "account")
        /\ r.request.url = (IF OnAdminSurface(r.tool) THEN api.whm_base_url ELSE api.base_url)
                           \o ExpectedPath(r.tool)
        /\ r.request.headers = (IF OnAdminSurface(r.tool) THEN api.whm_headers ELSE api.headers)
        /\ DOMAIN r.request.params = own
        /\ \A k \in DOMAIN expected : r.request.params[k] = expected[k]
        /\ OnAdminSurface(r.tool) => r.request.params["api.version"] = 1

ClientFieldsFixed ==
    /\ api = CpanelAPI(api.config)
    /\ \A i \in DOMAIN inv : inv[i].request # NoRequest => RequestFromOwnArguments(inv[i])

\* C16: after construction no operation, in any sequence or interleaving of
\* concurrent tool invocations, successful or failing, changes the client's
\* Connection Profile, base URLs or authorization headers, and the request an
\* invocation builds depends only on its own arguments and these fixed
\* fields, never on the parameters or the results of another invocation.
C16_ClientIsStateless ==
    /\ []ClientFieldsFixed
    /\ [][api' = api]_vars

\* While one caller's record removal has failed remotely, the other caller's
\* mailbox listing is in flight with its own domain as its only parameter.
C16_Witness ==
    /\ DOMAIN inv = InvocationPair
    /\ inv[1].tool = "delete_dns_record"
    /\ Done(inv[1])
    /\ Exchanged(inv[1])
    /\ IsErrorPayload(inv[1].result)
    /\ inv[2].tool = "list_email_accounts"
    /\ inv[2].pc = "waiting"
    /\ inv[2].request.params = [domain |-> inv[2].args.domain]
    /\ inv[2].args.domain # inv[1].request.params["domain"]

====
